---- MODULE Spec2Model ----
(***************************************************************************)
(* Model of estipy's ETA progress estimator (src/src/estipy/eta.py).       *)
(* One ETA instance wraps one iterable; the caller constructs it, calls    *)
(* __next__ and may call the public stats() method at any time.            *)
(* Times are integers (microseconds, the resolution of timedelta).         *)
(* A percentage (num / den) * 100 is kept as its operands; the double the   *)
(* code computes from them is derived where the text is formatted.         *)
(***************************************************************************)
EXTENDS Integers, Naturals, Sequences, FiniteSets, TLC

\* ---------------------------------------------------------------- bounds
MaxLen == 3        \* longest wrapped source
MaxTotal == 4      \* largest explicit total argument
MaxTime == 2       \* last clock value datetime.now() returns
MaxDone == 5       \* __next__ is not called any more once __done reaches this
MaxPrinted == 1    \* the caller prints a snapshot itself only while fewer lines are out

\* ---------------------------------------------------------------- helpers
\* the wrapped sources: [], [10], [10, 20], [10, 20, 30], ...
Sources == {[i \in 1..n |-> 10 * i] : n \in 0..MaxLen}

\* Python's None for the optional total argument is the empty tuple,
\* an integer argument T is <<T>>.
None == <<>>

\* an explicit total at which the float percentage of the first item lies
\* just beside a half tenth (1 / 2000 * 100)
LargeTotals == {2000}

TotalArgs == {None} \cup {<<t>> : t \in (0..MaxTotal) \cup LargeTotals}

\* The iterables handed to the constructor: a list (sized, has __len__)
\* or a generator over the same items (no __len__).
Iterables == [items : Sources, sized : BOOLEAN]

\* hasattr(iterable, '__len__')
hasattr_len(iterable) == iterable.sized

\* len(iterable)
len(iterable) == Len(iterable.items)

\* Truth value of the total argument in `if total:` (None and 0 are falsy)
truthy(total) == total # None /\ total[1] # 0

\* timedelta / int : microseconds divided and rounded half to even
divide_and_round(a, b) ==
    LET q == a \div b
        r == a % b
    IN IF 2 * r > b \/ (2 * r = b /\ q % 2 = 1) THEN q + 1 ELSE q

\* ---------------------------------------------------------------- state
VARIABLES
    args,       \* arguments of the ETA(...) call, NoArgs before it
    self,       \* the ETA instance, NoInstance while none exists
    now,        \* the wall clock read by datetime.now()
    out,        \* what has been written to sys.stdout and to the file argument
    returned,   \* items returned by __next__ so far, in order
    last        \* outcome of the latest call

vars == <<args, self, now, out, returned, last>>

NoArgs == [given |-> FALSE]
NoInstance == [exists |-> FALSE]
NoStats == <<>>

Outcome(kind, item, stats) == [kind |-> kind, item |-> item, stats |-> stats]

\* ---------------------------------------------------------------- Stats
AbsRelTime(time, absolute, percentage) ==
    [time |-> time, absolute |-> absolute, percentage |-> percentage]

\* a float percentage (num / den) * 100, kept as its operands: the exact
\* value is the fraction 100 * num / den
Percentage(a, b) == [num |-> a, den |-> b]

\* ---------------------------------------------------------------- floats
\* IEEE-754 doubles as the code computes them.  A natural number of any size
\* is its sequence of base-1024 digits (10 bits each), lowest first, the
\* highest not 0; a positive double is [m |-> digits, e |-> exponent], the
\* value m * 2^e with m of at most 53 significant bits (or m = 2^53).
RECURSIVE nat_limbs(_)
nat_limbs(n) == IF n = 0 THEN <<>> ELSE <<n % 1024>> \o nat_limbs(n \div 1024)

RECURSIVE limbs_nat(_)
limbs_nat(x) == IF x = <<>> THEN 0 ELSE x[1] + 1024 * limbs_nat(Tail(x))

\* x * n + c for small naturals n, c
RECURSIVE limbs_mul_add(_, _, _)
limbs_mul_add(x, n, c) ==
    IF x = <<>> THEN nat_limbs(c)
    ELSE LET v == x[1] * n + c
         IN <<v % 1024>> \o limbs_mul_add(Tail(x), n, v \div 1024)

\* bit i of x, the lowest being bit 1
bit(x, i) ==
    LET j == (i - 1) \div 10 + 1
    IN IF j > Len(x) THEN 0 ELSE (x[j] \div 2^((i - 1) % 10)) % 2

\* number of significant bits of x
bit_length(x) ==
    IF x = <<>> THEN 0
    ELSE 10 * (Len(x) - 1)
         + (CHOOSE k \in 1..10 : 2^(k - 1) <= x[Len(x)] /\ x[Len(x)] < 2^k)

\* the k bits of x from bit i upwards, as a number
RECURSIVE bits_value(_, _, _)
bits_value(x, i, k) == IF k = 0 THEN 0 ELSE bit(x, i) + 2 * bits_value(x, i + 1, k - 1)

\* (x + a fraction below one, present iff s = 1) / 2^f rounded to the
\* nearest integer, ties to even
round_shr(x, f, s) ==
    LET n == bit_length(x)
        hn == IF n > f THEN n - f ELSE 0
        hi == IF hn = 0 THEN <<>>
              ELSE [j \in 1..((hn + 9) \div 10) |-> bits_value(x, f + 10 * (j - 1) + 1, 10)]
        guard == IF f >= 1 THEN bit(x, f) ELSE 0
        sticky == s = 1 \/ \E i \in 1..(f - 1) : bit(x, i) = 1
        odd == bit(x, f + 1) = 1
    IN IF guard = 1 /\ (sticky \/ odd) THEN limbs_mul_add(hi, 1, 1) ELSE hi

\* long division r / b continued digit by digit until the quotient q has 7
\* digits (61 bits or more); k counts the digits behind the point
RECURSIVE quotient_limbs(_, _, _, _)
quotient_limbs(q, r, b, k) ==
    IF Len(q) >= 7 THEN [q |-> q, r |-> r, k |-> k]
    ELSE LET d == (r * 1024) \div b
         IN quotient_limbs(IF d = 0 /\ q = <<>> THEN <<>> ELSE <<d>> \o q,
                           (r * 1024) % b, b, k + 1)

\* int / int: the correctly rounded double of a / b (a >= 0, 0 < b < 2^21)
float_div(a, b) ==
    IF a = 0 THEN [m |-> <<>>, e |-> 0]
    ELSE LET d == quotient_limbs(nat_limbs(a \div b), a % b, b, 0)
             f == bit_length(d.q) - 53
         IN [m |-> round_shr(d.q, f, IF d.r = 0 THEN 0 ELSE 1), e |-> f - 10 * d.k]

\* double * int, rounded to 53 bits
float_mul(x, n) ==
    LET prod == limbs_mul_add(x.m, n, 0)
        f == IF bit_length(prod) > 53 THEN bit_length(prod) - 53 ELSE 0
    IN [m |-> round_shr(prod, f, 0), e |-> x.e + f]

\* the double of a percentage: (num / den) * 100
float_percentage(p) == float_mul(float_div(p.num, p.den), 100)

\* f'{x:.1f}': the decimal with one digit nearest to the double's exact
\* value, in tenths
format_1f(x) ==
    LET t == limbs_mul_add(x.m, 10, 0)
    IN IF x.e >= 0 THEN limbs_nat(t) * 2^x.e
       ELSE limbs_nat(round_shr(t, 0 - x.e, 0))

\* f'{p:.1f}' of a percentage p = (num / den) * 100 with num, den > 0, in
\* tenths.  The double differs from the exact 100 * num / den by less than
\* 2^-52 of it, and an exact value that is not on a half tenth is at least
\* 1 / (2 * den) tenths away from one, more than that error for every
\* num < 2^21: there the nearest tenth of the exact value is the digit
\* printed.  On a half tenth the double itself decides.
percentage_1f(p) ==
    IF 2 * ((1000 * p.num) % p.den) = p.den
    THEN format_1f(float_percentage(p))
    ELSE divide_and_round(1000 * p.num, p.den)

\* an off-by-one remaining count, as if __done were incremented after stats()
remaining_absolute_late(s) == s.total - s.done + 1

\* ETA.stats line 131
remaining_absolute(s) == s.total - s.done

\* ETA.stats: the snapshot of instance s, the clock reading t1 at line 129
\* and t2 at line 150; a ZeroDivisionError when __done or __total is 0.
stats(s, t1, t2) ==
    IF s.done = 0 \/ s.total = 0
    THEN Outcome("ZeroDivisionError", 0, NoStats)
    ELSE LET elapsed_since_start == t1 - s.start_time
             duration_per_operation == divide_and_round(elapsed_since_start, s.done)
             remaining_time == duration_per_operation * remaining_absolute(s)
         IN Outcome("stats", 0,
              [total |-> AbsRelTime(duration_per_operation * s.total, s.total,
                                    [num |-> 1, den |-> 1]),
               remaining |-> AbsRelTime(remaining_time, remaining_absolute(s),
                                        Percentage(remaining_absolute(s), s.total)),
               done |-> AbsRelTime(duration_per_operation * s.done, s.done,
                                   Percentage(s.done, s.total)),
               eta |-> t2 + remaining_time])

\* Stats.__str__: the fields the text shows; the percentage with one decimal
\* is given in tenths.
Stats_str(st) ==
    [done |-> st.done.absolute,
     total |-> st.total.absolute,
     percentage_1f |-> percentage_1f(st.done.percentage),
     remaining |-> st.remaining.time]

\* print(..., file=file): None is sys.stdout
stream(file) == IF file = "None" THEN "stdout" ELSE "file"

\* Stats.print_refresh: '\r' + text, no newline
print_refresh(o, st, file) ==
    [o EXCEPT ![stream(file)] = Append(@, [lead |-> "\\r", text |-> Stats_str(st), end |-> ""])]

\* Stats.print: text + newline
print(o, st, file) ==
    [o EXCEPT ![stream(file)] = Append(@, [lead |-> "", text |-> Stats_str(st), end |-> "\\n"])]

\* printing that looks at overwrite only and ignores the auto_print flag
auto_print_always(o, s, st) ==
    IF s.overwrite THEN print_refresh(o, st, s.file) ELSE print(o, st, s.file)

\* ETA.__next__ lines 121-124: the automatic printing
auto_print(o, s, st) ==
    IF s.auto_print /\ s.overwrite THEN print_refresh(o, st, s.file)
    ELSE IF s.auto_print /\ ~s.overwrite THEN print(o, st, s.file)
    ELSE o

\* ---------------------------------------------------------------- __init__
\* a constructor that falls back to a total of 0 instead of raising
init_total_no_raise(iterable, total) ==
    IF truthy(total) THEN <<total[1]>>
    ELSE IF hasattr_len(iterable) THEN <<len(iterable)>>
    ELSE <<0>>

\* a constructor that derives a total one above the length
init_total_off_by_one(iterable, total) ==
    IF truthy(total) THEN <<total[1]>>
    ELSE IF hasattr_len(iterable) THEN <<len(iterable) + 1>>
    ELSE <<>>

\* ETA.__init__ lines 97-102: the total of the new instance, <<>> when the
\* TypeError is raised
init_total(iterable, total) ==
    IF truthy(total) THEN <<total[1]>>
    ELSE IF hasattr_len(iterable) THEN <<len(iterable)>>
    ELSE <<>>

\* ETA.__init__ lines 97-108: the instance, or NoInstance when it raised
init_self(iterable, total, ap, ow, file, t) ==
    LET tot == init_total(iterable, total)
    IN IF tot = <<>> THEN NoInstance
       ELSE [exists |-> TRUE,
             iterable |-> 0,          \* iter(iterable): items consumed so far
             total |-> tot[1],
             done |-> 0,
             start_time |-> t,
             auto_print |-> ap,
             overwrite |-> ow,
             file |-> file]

Init ==
    /\ args = NoArgs
    /\ self = NoInstance
    /\ now = 0
    /\ out = [stdout |-> <<>>, file |-> <<>>]
    /\ returned = <<>>
    /\ last = Outcome("none", 0, NoStats)

\* ETA(iterable, total=..., auto_print=..., overwrite=..., file=...)
Construct ==
    /\ ~args.given
    /\ \E iterable \in Iterables, total \in TotalArgs, ap \in BOOLEAN, ow \in BOOLEAN,
          file \in {"None", "file"}, t \in now..MaxTime :
          LET s == init_self(iterable, total, ap, ow, file, t)
          IN /\ args' = [given |-> TRUE, iterable |-> iterable, total |-> total,
                         auto_print |-> ap, overwrite |-> ow, file |-> file]
             /\ self' = s
             /\ IF s.exists
                THEN now' = t /\ last' = Outcome("constructed", 0, NoStats)
                ELSE now' = now /\ last' = Outcome("TypeError", 0, NoStats)
    /\ UNCHANGED <<out, returned>>

\* ---------------------------------------------------------------- __next__
\* line 115
increment_done(s) == [s EXCEPT !.done = @ + 1]

\* next(self.__iterable), line 117: has the inner iterator another item
has_next(s, iterable) == s.iterable < Len(iterable.items)

\* next(self.__iterable), line 117: the item and the advanced iterator
next_item(s, iterable) == iterable.items[s.iterable + 1]
\* an iterator that skips an item on every retrieval
next_iter_skip(s) == [s EXCEPT !.iterable = @ + 2]

next_iter(s) == [s EXCEPT !.iterable = @ + 1]

\* ETA.__next__
Advance ==
    /\ self.exists
    /\ self.done < MaxDone
    /\ LET s1 == increment_done(self)
       IN IF ~has_next(s1, args.iterable)
          THEN /\ self' = s1
               /\ last' = Outcome("StopIteration", 0, NoStats)
               /\ UNCHANGED <<now, out, returned>>
          ELSE \E t1 \in now..MaxTime : \E t2 \in t1..MaxTime :
               LET item == next_item(s1, args.iterable)
                   s2 == next_iter(s1)
                   r == stats(s2, t1, t2)
               IN /\ self' = s2
                  /\ IF r.kind = "stats"
                     THEN /\ out' = auto_print(out, s2, r.stats)
                          /\ returned' = Append(returned, item)
                          /\ last' = Outcome("item", item, r.stats)
                          /\ now' = t2
                     ELSE /\ last' = r
                          /\ now' = t1
                          /\ UNCHANGED <<out, returned>>
    /\ UNCHANGED args

\* a direct call of the public ETA.stats()
StatsCall ==
    /\ self.exists
    /\ \E t1 \in now..MaxTime : \E t2 \in t1..MaxTime :
          LET r == stats(self, t1, t2)
          IN /\ last' = r
             /\ now' = IF r.kind = "stats" THEN t2 ELSE t1
    /\ UNCHANGED <<args, self, out, returned>>

\* the caller prints the snapshot it was handed: st.print(file)
PrintCall ==
    /\ last.kind \in {"item", "stats"}
    /\ Len(out.stdout) + Len(out.file) < MaxPrinted
    /\ \E file \in {"None", "file"} : out' = print(out, last.stats, file)
    /\ UNCHANGED <<args, self, now, returned, last>>

\* the caller prints the snapshot it was handed: st.print_refresh(file)
PrintRefreshCall ==
    /\ last.kind \in {"item", "stats"}
    /\ Len(out.stdout) + Len(out.file) < MaxPrinted
    /\ \E file \in {"None", "file"} : out' = print_refresh(out, last.stats, file)
    /\ UNCHANGED <<args, self, now, returned, last>>

Next == Construct \/ Advance \/ StatsCall \/ PrintCall \/ PrintRefreshCall

Spec == Init /\ [][Next]_vars

\* ---------------------------------------------------------------- properties
items == args.iterable.items

\* the latest call produced a snapshot
HasSnapshot == last.kind \in {"item", "stats"}

\* the latest call ran the statistics computation
RanStats == last.kind \in {"item", "stats", "ZeroDivisionError"}

\* C1: __done equals the number of successfully retrieved elements in every
\* state, so an advance that ends in StopIteration leaves it unchanged.
\* Violated: __next__ increments __done before it asks the source.
C1_DoneCountsRetrieved == self.exists => self.done = Len(returned)

\* C2: with the total derived from the length N, the snapshot returned by the
\* k-th advance has done.count = k, remaining.count = N - k, total.count = N,
\* their sum is consistent, and at k = N the remaining count and percentage
\* are 0.
C2_AdvanceSnapshot ==
    (last.kind = "item" /\ args.total = None) =>
        LET k == Len(returned)
            N == len(args.iterable)
            st == last.stats
        IN /\ 1 <= k /\ k <= N
           /\ st.done.absolute = k
           /\ st.remaining.absolute = N - k
           /\ st.total.absolute = N
           /\ st.done.absolute + st.remaining.absolute = st.total.absolute
           /\ (k = N => st.remaining.absolute = 0 /\ st.remaining.percentage.num = 0)

C2_Witness ==
    /\ last.kind = "item"
    /\ args.total = None
    /\ len(args.iterable) = 3
    /\ Len(returned) = 3
    /\ last.stats.remaining.absolute = 0

\* C3: an explicit total T, T = 0 included, is used verbatim: construction
\* succeeds and __total = T whatever the source.
\* Violated: `if total:` treats 0 like None.
C3_ExplicitTotalVerbatim ==
    (args.given /\ args.total # None) => (self.exists /\ self.total = args.total[1])

\* C4: constructing with no total and a source without __len__ raises the
\* TypeError and leaves no instance: nothing wrapped, consumed, counted,
\* timed or printed.
C4_NoPartialInstance ==
    (args.given /\ args.total = None /\ ~hasattr_len(args.iterable)) =>
        /\ last.kind = "TypeError"
        /\ self = NoInstance
        /\ returned = <<>>
        /\ out.stdout = <<>> /\ out.file = <<>>
        /\ now = 0

C4_Witness ==
    /\ args.given
    /\ args.total = None
    /\ ~hasattr_len(args.iterable)
    /\ Len(items) = 2
    /\ last.kind = "TypeError"

\* C5: the statistics computation only ever runs with __done >= 1.
\* Violated: stats() is public and can be called right after construction.
C5_StatsDoneAtLeastOne == (self.exists /\ RanStats) => self.done >= 1

\* C6: with no explicit total a sized source of length N (N >= 0) constructs
\* with __total = N, and every snapshot afterwards reports total.count = N.
C6_TotalIsLength ==
    (args.given /\ args.total = None /\ hasattr_len(args.iterable)) =>
        /\ self.exists
        /\ self.total = len(args.iterable)
        /\ (HasSnapshot => last.stats.total.absolute = len(args.iterable))

C6_Witness ==
    /\ args.given
    /\ args.total = None
    /\ len(args.iterable) = 2
    /\ Len(returned) = 2
    /\ last.kind = "stats"
    /\ last.stats.total.absolute = 2

\* C7: with the total derived from the length N every snapshot obtainable
\* after any advance attempts has 0 <= remaining.count <= N.
\* Violated: an exhausted advance still increments __done (see C1).
C7_RemainingInRange ==
    (self.exists /\ args.total = None /\ HasSnapshot) =>
        /\ 0 <= last.stats.remaining.absolute
        /\ last.stats.remaining.absolute <= len(args.iterable)

\* C8: every step of __next__ that returns an item writes exactly one status
\* line when auto_print is on (to the instance's stream, showing the new
\* counts; a '\r' rewrite if overwrite is on, a line with newline if it is
\* off) and writes nothing when auto_print is off; a step that ends in
\* StopIteration writes nothing.  So the lines the advances emit number the
\* retrieved elements, or 0.
C8_AdvanceEmitsOnce ==
    [][(self.exists /\ self' # self) =>
         IF last'.kind = "item" /\ self.auto_print
         THEN LET f == stream(self.file)
                  g == IF f = "stdout" THEN "file" ELSE "stdout"
                  line == out'[f][Len(out'[f])]
              IN /\ returned' = Append(returned, last'.item)
                 /\ Len(out'[f]) = Len(out[f]) + 1
                 /\ SubSeq(out'[f], 1, Len(out[f])) = out[f]
                 /\ out'[g] = out[g]
                 /\ line.text.done = Len(returned')
                 /\ line.text.total = self.total
                 /\ line.lead = (IF self.overwrite THEN "\\r" ELSE "")
                 /\ line.end = (IF self.overwrite THEN "" ELSE "\\n")
         ELSE out' = out]_vars

C8_Witness ==
    /\ self.exists
    /\ self.auto_print /\ ~self.overwrite
    /\ last.kind = "StopIteration"
    /\ Len(returned) = 2
    /\ Len(out[stream(self.file)]) = 2
    /\ out[stream(self.file)][2].end = "\\n"

\* C9: whenever the statistics computation runs, k = 0 and N = 0 included, it
\* yields a snapshot with done.percentage + remaining.percentage = 100
\* (exactly, as fractions) and total.percentage = 100.
\* Violated: with __done = 0 or __total = 0 stats() raises ZeroDivisionError.
C9_SnapshotAvailable ==
    (self.exists /\ RanStats) =>
        /\ HasSnapshot
        /\ LET d == last.stats.done.percentage
               r == last.stats.remaining.percentage
               t == last.stats.total.percentage
           IN /\ 100 * d.num * r.den + 100 * r.num * d.den = 100 * d.den * r.den
              /\ 100 * t.num = 100 * t.den

\* C10: the items returned by successful advances are exactly the consumed
\* prefix of the wrapped source, in order, each advance returning the item it
\* consumed, and StopIteration comes only when the source is used up,
\* whatever __total is.
C10_PassThrough ==
    self.exists =>
        /\ self.iterable <= Len(items)
        /\ returned = SubSeq(items, 1, self.iterable)
        /\ (last.kind = "item" => last.item = items[self.iterable])
        /\ (last.kind = "StopIteration" => self.iterable = Len(items))

C10_Witness ==
    /\ self.exists
    /\ self.total # Len(items)
    /\ Len(items) = 3
    /\ returned = items
    /\ last.kind = "StopIteration"

====
